---- MODULE Spec2Model ----
(***************************************************************************)
(* netlify-local: the request routing and function invocation engine of    *)
(* src/ts/server.ts (class Server) and the `serve` command of the CLI.     *)
(*                                                                         *)
(* The model follows one process: the CLI constructs a Server (which       *)
(* registers its routes on an express router stack), listens, and then     *)
(* answers requests.  A request walks the router stack in registration     *)
(* order; a function invocation stays open until the handler completes     *)
(* through the completion callback or through the promise it returned.     *)
(***************************************************************************)
EXTENDS Integers, Sequences, FiniteSets, TLC

\* ------------------------------------------------------------- bounds
\* requests the clients send to one server instance
MaxReq == 2
\* header rules of a netlify.toml
MaxHeaders == 2
\* redirect rules of a netlify.toml
MaxRedirects == 2

\* ------------------------------------------------------------- values
NoValue == "<unset>"
HeaderNames == {"X-A", "Location"}
NoHeaders == [n \in HeaderNames |-> NoValue]

\* the key set `for (const header in headers)` iterates over
Keys(headers) == {n \in HeaderNames : headers[n] # NoValue}

FunctionRoute == "/.netlify/functions/f"
Paths == {"/a", "/b", FunctionRoute}
Methods == {"GET", "POST"}

\* express path matching of the patterns the configurations use: a literal
\* path matches itself, "/*" matches every path, and the function route's
\* ":lambda" parameter matches the one function name of the model
Matches(pattern, path) ==
    \/ pattern = "/*"
    \/ pattern = path
    \/ pattern = "/.netlify/functions/:lambda" /\ path = FunctionRoute

Absent == "<undefined>"

\* ---------------------------------------------------- the HTTP response
\* express.Response over http.ServerResponse.  statusCode and headers are the
\* response object's properties; wire is what was sent to the client, fixed
\* when the body is written and the response ended; writer is, per header
\* name, the router layer whose setHeader call wrote the current value, and
\* by is the layer that ended the routing of the request.
NoBody == [kind |-> "none", arg |-> ""]
NoWire == [status |-> 0, headers |-> NoHeaders, body |-> NoBody]
NewResponse ==
    [statusCode |-> 200, headers |-> NoHeaders,
     writer |-> [n \in HeaderNames |-> 0],
     finished |-> FALSE, wire |-> NoWire, by |-> 0]

\* the result of a call that may throw: the response as the call left it, and
\* the error thrown ("" when the call returned)
Returned(res) == [res |-> res, threw |-> "", emitted |-> ""]
Threw(res, error) == [res |-> res, threw |-> error, emitted |-> ""]
\* a call that returned after it scheduled an 'error' event on the response
Emitted(res, error) == [res |-> res, threw |-> "", emitted |-> error]

\* setHeader that keeps the value a header already has
SetHeadersKeepFirst(res, headers, who) ==
    IF Keys(headers) = {} THEN Returned(res)
    ELSE IF res.finished THEN Threw(res, "ERR_HTTP_HEADERS_SENT")
    ELSE Returned([res EXCEPT
            !.headers = [n \in HeaderNames |->
                            IF headers[n] # NoValue /\ @[n] = NoValue
                            THEN headers[n] ELSE @[n]],
            !.writer = [n \in HeaderNames |->
                            IF headers[n] # NoValue /\ res.headers[n] = NoValue
                            THEN who ELSE @[n]]])

\* response.setHeader for every key of headers, by layer `who`; http refuses
\* to set a header once the headers are sent
SetHeaders(res, headers, who) ==
    IF Keys(headers) = {} THEN Returned(res)
    ELSE IF res.finished THEN Threw(res, "ERR_HTTP_HEADERS_SENT")
    ELSE Returned([res EXCEPT
            !.headers = [n \in HeaderNames |->
                            IF headers[n] # NoValue THEN headers[n] ELSE @[n]],
            !.writer = [n \in HeaderNames |->
                            IF headers[n] # NoValue THEN who ELSE @[n]]])

\* the body is written with the status and headers the response has now, and
\* the response is ended
SendBody(res, body, who) ==
    [res EXCEPT !.finished = TRUE, !.by = who,
                !.wire = [status |-> res.statusCode, headers |-> res.headers,
                          body |-> body]]

\* express's default error handler (finalhandler), reached through next(err)
\* and when no layer answers: a response whose headers are sent is left alone
\* (its socket is destroyed); otherwise an HTML page is sent, which outside
\* NODE_ENV=production shows the error and in production the status text
StatusText(status) == IF status = 404 THEN "Not Found" ELSE "Internal Server Error"

ErrorMessage(error, status, env) ==
    IF env = "production" THEN StatusText(status) ELSE error

FinalHandler(res, status, body, who) ==
    IF res.finished THEN res
    ELSE SendBody([res EXCEPT !.statusCode = status], body, who)

\* next(err): the error page for an error thrown by, or passed on from, a layer
NextError(res, status, error, env, who) ==
    FinalHandler(res, status,
                 [kind |-> "errorPage", arg |-> ErrorMessage(error, status, env)], who)

\* no layer answered: 404, "Cannot <method> <path>"
NotFound(res, request, who) ==
    FinalHandler(res, 404, [kind |-> "cannot", arg |-> request.path], who)

\* ------------------------------------------------- the router stack
\* One layer per express.all / express.use call, in registration order.  A
\* layer keeps what its closure captured: the path it was registered under
\* and, for a header or redirect rule, the rule's fields.
Layer(kind, path, headers, status, to, force) ==
    [kind |-> kind, path |-> path, headers |-> headers, status |-> status,
     to |-> to, force |-> force]

handleHeader(path, headers) == Layer("header", path, headers, 0, "", "")

routeHeaders(stack, headers) ==
    stack \o [i \in 1..Len(headers) |-> handleHeader(headers[i].for, headers[i].values)]

handleRedirect(redirect) ==
    Layer("redirect", redirect.from, redirect.headers, redirect.status,
          redirect.to, redirect.force)

handleRewrite(redirect) ==
    Layer("rewrite", redirect.from, redirect.headers, redirect.status,
          redirect.to, redirect.force)

routeRedirects(stack, redirects) ==
    stack \o [i \in 1..Len(redirects) |->
                IF redirects[i].status \in {301, 302, 303}
                THEN handleRedirect(redirects[i])
                ELSE handleRewrite(redirects[i])]

\* a route* call either returns with the stack it left and the lines it
\* logged, or throws
Registered(stack, log) == [stack |-> stack, log |-> log, threw |-> ""]
Refused(stack, error) == [stack |-> stack, log |-> {}, threw |-> error]

\* routeStatic without the check of build.publish
routeStaticUnchecked(options, stack) ==
    IF ~options.routes.static THEN Registered(stack, {})
    ELSE Registered(
            Append(stack, Layer("static", options.netlifyConfig.build.base,
                                NoHeaders, 0, "", "")),
            {"netlify-local: static routes initialized"})

routeStatic(options, stack) ==
    IF ~options.routes.static THEN Registered(stack, {})
    ELSE IF options.netlifyConfig.build.publish = Absent
    THEN Refused(stack, "cannot find build.publish property within toml config")
    ELSE Registered(
            Append(stack, Layer("static", options.netlifyConfig.build.base,
                                NoHeaders, 0, "", "")),
            {"netlify-local: static routes initialized"})

\* routeLambda that also gives up when the static stage is off
routeLambdaWithStatic(options, stack) ==
    IF ~options.routes.lambda \/ ~options.routes.static THEN Registered(stack, {})
    ELSE IF options.netlifyConfig.build.functions = Absent
    THEN Refused(stack, "cannot find build.functions property within toml config")
    ELSE Registered(
            Append(stack, Layer("lambda", "/.netlify/functions/:lambda",
                                NoHeaders, 0, "", "")),
            {"netlify-local: lambda routes initialized"})

routeLambda(options, stack) ==
    IF ~options.routes.lambda THEN Registered(stack, {})
    ELSE IF options.netlifyConfig.build.functions = Absent
    THEN Refused(stack, "cannot find build.functions property within toml config")
    ELSE Registered(
            Append(stack, Layer("lambda", "/.netlify/functions/:lambda",
                                NoHeaders, 0, "", "")),
            {"netlify-local: lambda routes initialized"})

IsHard(redirect) == redirect.force = "true"
IsSoft(redirect) == redirect.force = "false"

\* initialize with the two redirect passes exchanged: the soft rules ahead of
\* the static and function routes, the hard rules behind them
initializeSoftFirst(options) ==
    LET hardRedirects == SelectSeq(options.netlifyConfig.redirects, IsHard)
        softRedirects == SelectSeq(options.netlifyConfig.redirects, IsSoft)
        s1 == routeHeaders(<<>>, options.netlifyConfig.headers)
        s2 == routeRedirects(s1, softRedirects)
        s3 == routeStatic(options, s2)
        s4 == routeLambda(options, s3.stack)
    IN  IF s3.threw # "" THEN s3
        ELSE IF s4.threw # "" THEN [s4 EXCEPT !.log = s3.log]
        ELSE Registered(routeRedirects(s4.stack, hardRedirects), s3.log \cup s4.log)

\* Server.initialize, called by the constructor: the registration order is
\* header rules, hard redirects, static, function route, soft redirects; a
\* throw of routeStatic or routeLambda leaves the constructor
initialize(options) ==
    LET hardRedirects == SelectSeq(options.netlifyConfig.redirects, IsHard)
        softRedirects == SelectSeq(options.netlifyConfig.redirects, IsSoft)
        s1 == routeHeaders(<<>>, options.netlifyConfig.headers)
        s2 == routeRedirects(s1, hardRedirects)
        s3 == routeStatic(options, s2)
        s4 == routeLambda(options, s3.stack)
    IN  IF s3.threw # "" THEN s3
        ELSE IF s4.threw # "" THEN [s4 EXCEPT !.log = s3.log]
        ELSE Registered(routeRedirects(s4.stack, softRedirects), s3.log \cup s4.log)

\* ------------------------------------------------- a request's routing
\* the file system under paths.static = cwd/String(build.publish)
FileExists(world, file) ==
    world.netlifyConfig.build.publish # Absent /\ file \in world.files

FileContents(file) == [kind |-> "file", arg |-> file]

IsDirectory(world, file) ==
    world.netlifyConfig.build.publish # Absent /\ file \in world.dirs

\* express mounts a middleware under a path prefix
Mounted(base, path) == base = "/" \/ base = path

\* a header layer that only calls next()
HeaderLayerOnlyNext(res, layer, who) == res

\* a header layer that also sets the status of the response
HeaderLayerWithStatus(res, layer, who) ==
    [SetHeaders(res, layer.headers, who).res EXCEPT !.statusCode = 204]

\* the closure of handleHeader: every declared header is set, then next()
HeaderLayer(res, layer, who) == SetHeaders(res, layer.headers, who).res

\* handleRedirectHeaders: the rule's own headers, when it has any
handleRedirectHeaders(res, redirect, who) == SetHeaders(res, redirect.headers, who).res

\* res.location: "back" is the referrer, every other url is sent encoded
EncodeUrl(url) == IF url = "/x y" THEN "/x%20y" ELSE url
location(url, request) ==
    IF url = "back" THEN request.referrer ELSE EncodeUrl(url)

\* res.redirect(url) with one argument: sets Location, sets the status to
\* 302 whatever response.status() set before, and ends the response
redirect(res, url, request, who) ==
    LET loc == location(url, request)
        r1 == SetHeaders(res, [NoHeaders EXCEPT !["Location"] = loc], who).res
    IN  SendBody([r1 EXCEPT !.statusCode = 302],
                 [kind |-> "redirecting", arg |-> loc], who)

\* the closure of handleRedirect
RedirectLayer(res, layer, request, who) ==
    LET r1 == handleRedirectHeaders(res, layer, who)
        r2 == [r1 EXCEPT !.statusCode = layer.status]
    IN  redirect(r2, layer.to, request, who)

\* handleRewrite without response.status(redirect.status)
RewriteLayerDefaultStatus(res, layer, world, who) ==
    LET r1 == handleRedirectHeaders(res, layer, who)
    IN  IF FileExists(world, layer.to)
        THEN SendBody(r1, FileContents(layer.to), who)
        ELSE NextError(r1, 404, "Error: ENOENT", world.env, who)

\* the closure of handleRewrite: sendFile answers with the file under the
\* static directory and the status set before, or passes a 404 error on
RewriteLayer(res, layer, world, who) ==
    LET r1 == handleRedirectHeaders(res, layer, who)
        r2 == [r1 EXCEPT !.statusCode = layer.status]
    IN  IF FileExists(world, layer.to)
        THEN SendBody(r2, FileContents(layer.to), who)
        ELSE NextError(r2, 404, "Error: ENOENT", world.env, who)

\* sendFile of a path that is a directory: express calls next() without an
\* error, so the request goes on to the later layers with the rule's
\* headers and status already set on the response
RewritePassedOn(res, layer, who) ==
    [handleRedirectHeaders(res, layer, who) EXCEPT !.statusCode = layer.status]

\* serve-static answers GET and HEAD of an existing file and falls through
\* otherwise
StaticServes(request, world) ==
    request.method \in {"GET", "HEAD"} /\ FileExists(world, request.path)

\* The walk of the router stack from layer i on.  The result is the response
\* and, when the walk reached the function route, that layer's index in
\* `lambda` (0 otherwise): the handler's invocation is the caller's step.
RECURSIVE Dispatch(_, _, _, _, _)
Dispatch(stack, i, request, res, world) ==
    IF i > Len(stack) THEN [res |-> NotFound(res, request, i), lambda |-> 0]
    ELSE LET layer == stack[i] IN
        IF layer.kind = "static"
        THEN IF Mounted(layer.path, request.path) /\ StaticServes(request, world)
             THEN [res |-> SendBody(res, FileContents(request.path), i), lambda |-> 0]
             ELSE Dispatch(stack, i + 1, request, res, world)
        ELSE IF ~Matches(layer.path, request.path)
        THEN Dispatch(stack, i + 1, request, res, world)
        ELSE IF layer.kind = "header"
        THEN Dispatch(stack, i + 1, request, HeaderLayer(res, layer, i), world)
        ELSE IF layer.kind = "redirect"
        THEN [res |-> RedirectLayer(res, layer, request, i), lambda |-> 0]
        ELSE IF layer.kind = "rewrite"
        THEN IF IsDirectory(world, layer.to)
             THEN Dispatch(stack, i + 1, request, RewritePassedOn(res, layer, i), world)
             ELSE [res |-> RewriteLayer(res, layer, world, i), lambda |-> 0]
        ELSE [res |-> res, lambda |-> i]

\* ------------------------------------------- the function invocation adapter
\* What is on disk under paths.lambda for the function: a version of its
\* source, a source that throws while it loads, or nothing.
Versions == {"v1", "v2"}
Sources == Versions \cup {"broken", "missing"}
NoModule == "<none>"

\* require(module): the cached module if there is one, else the source on
\* disk is loaded and cached; a load that throws caches nothing
Require(cache, source) ==
    IF cache # NoModule THEN [cache |-> cache, module |-> cache, threw |-> ""]
    ELSE IF source = "broken"
    THEN [cache |-> NoModule, module |-> NoModule, threw |-> "Error: load"]
    ELSE [cache |-> source, module |-> source, threw |-> ""]

\* a load whose failure is not noticed: whatever is on disk is handed on
LoadHandlerUnchecked(cache, source) ==
    [cache |-> source, module |-> source, threw |-> ""]

\* require(module) without the delete before it
LoadHandlerCached(cache, source) == Require(cache, source)

\* delete require.cache[require.resolve(module)], then require(module)
LoadHandler(cache, source) == Require(NoModule, source)

\* what a handler hands over: an error, or a response that is a bare string
\* or an object { statusCode, headers, body }
NoError == "<null>"
BareString(s) == [type |-> "string", statusCode |-> 0, headers |-> NoHeaders, body |-> s]
ObjectResponse ==
    [type |-> "object", statusCode |-> 201,
     headers |-> [NoHeaders EXCEPT !["X-A"] = "fn"], body |-> "made"]
NoResponse == [type |-> "none", statusCode |-> 0, headers |-> NoHeaders, body |-> ""]
LambdaResponses == {BareString("ok"), ObjectResponse}
Errors == {"Error: boom"}

Fails(error) == [error |-> error, response |-> NoResponse]
Succeeds(response) == [error |-> NoError, response |-> response]
NoOutcome == [error |-> NoError, response |-> NoResponse]
Outcomes == {Fails(e) : e \in Errors} \cup {Succeeds(lr) : lr \in LambdaResponses}

\* handleLambdaError: response.status(500).json(...).  json sets the
\* Content-Type header, which http refuses once the headers are sent
handleLambdaError(res, error, who) ==
    LET r1 == [res EXCEPT !.statusCode = 500]
    IN  IF r1.finished THEN Threw(r1, "ERR_HTTP_HEADERS_SENT")
        ELSE Returned(SendBody(r1, [kind |-> "invocationFailed", arg |-> error], who))

\* handleLambdaResponse without the bare-string case: the string's own
\* (missing) statusCode is assigned
handleLambdaResponseAsObject(res, lambdaResponse, who) ==
    LET r1 == [res EXCEPT !.statusCode = lambdaResponse.statusCode]
        r2 == SetHeaders(r1, lambdaResponse.headers, who)
    IN  IF r2.threw # "" THEN r2
        ELSE IF r2.res.finished THEN Emitted(r2.res, "ERR_STREAM_WRITE_AFTER_END")
        ELSE Returned(SendBody(r2.res, [kind |-> "text", arg |-> lambdaResponse.body], who))

\* handleLambdaResponse: a bare string is { statusCode: 200, body }; the
\* status is assigned, the headers are set, the body is written and the
\* response ended.  http answers a write to an ended response with an
\* 'error' event on the response; end() of an ended response does nothing
handleLambdaResponse(res, lambdaResponse, who) ==
    LET parsedResponse ==
            IF lambdaResponse.type = "string"
            THEN [statusCode |-> 200, headers |-> NoHeaders, body |-> lambdaResponse.body]
            ELSE lambdaResponse
        r1 == [res EXCEPT !.statusCode = parsedResponse.statusCode]
        r2 == SetHeaders(r1, parsedResponse.headers, who)
    IN  IF r2.threw # "" THEN r2
        ELSE IF r2.res.finished THEN Emitted(r2.res, "ERR_STREAM_WRITE_AFTER_END")
        ELSE Returned(SendBody(r2.res, [kind |-> "text", arg |-> parsedResponse.body], who))

\* the closure of lambdaCallback, called with (error, lambdaResponse)
lambdaCallback(res, outcome, who) ==
    IF outcome.error # NoError
    THEN handleLambdaError(res, outcome.error, who)
    ELSE handleLambdaResponse(res, outcome.response, who)

\* lambdaExecution.then(handleLambdaResponse).catch(handleLambdaError): a
\* throw of the then-callback is handed to the catch-callback, and a throw of
\* the catch-callback rejects the chain, which nothing handles
promiseChain(res, outcome, who) ==
    LET fulfilled == handleLambdaResponse(res, outcome.response, who)
    IN  IF outcome.error # NoError THEN handleLambdaError(res, outcome.error, who)
        ELSE IF fulfilled.threw # "" THEN handleLambdaError(fulfilled.res, fulfilled.threw, who)
        ELSE fulfilled

\* What a client sends with a request: a Content-Type header (or none) and a
\* body (or none).  bodyParser.raw and bodyParser.text({ type: "*/*" }) leave
\* request.body: a request without a body gets the empty object {}, a body
\* of type application/octet-stream a Buffer, any other body a string.
NoContentType == ""
ContentTypes == {NoContentType, "text/plain", "image/png"}
NoPayload == [contentType |-> NoContentType, hasBody |-> FALSE, text |-> ""]
Payloads ==
    {NoPayload,
     [contentType |-> "text/plain", hasBody |-> FALSE, text |-> ""],
     [contentType |-> "text/plain", hasBody |-> TRUE, text |-> "hi"],
     [contentType |-> "image/png", hasBody |-> TRUE, text |-> "hi"]}

EmptyObject == [kind |-> "object", text |-> "[object Object]"]
StringBody(text) == [kind |-> "string", text |-> text]
bodyParser(payload) ==
    IF payload.hasBody THEN StringBody(payload.text) ELSE EmptyObject

\* JavaScript truthiness of request.body: every object, every string but ""
Truthy(body) == ~(body.kind = "string" /\ body.text = "")

\* contentType.match(/text|application|multipart\/form-data/)
TextLike(contentType) == contentType \in {"text/plain"}

\* Buffer.from(text, "utf8").toString("base64")
Base64(text) ==
    IF text = "hi" THEN "aGk="
    ELSE IF text = "[object Object]" THEN "W29iamVjdCBPYmplY3Rd"
    ELSE ""

\* Server.lambdaRequest: body and isBase64Encoded of the handler's event
lambdaRequest(request) ==
    LET body == bodyParser(request.payload)
        isBase64Encoded == Truthy(body) /\ ~TextLike(request.payload.contentType)
    IN  [body |-> IF isBase64Encoded THEN StringBody(Base64(body.text)) ELSE body,
         isBase64Encoded |-> isBase64Encoded]

NoEvent == [body |-> StringBody(""), isBase64Encoded |-> FALSE]

\* the invocation of one request: how often the handler was called, the
\* module that ran and the source that was on disk then, what the handler did
\* synchronously and returned, the state of its two completion triggers,
\* which of them wrote the response and with what content, and the errors
\* thrown or emitted that nothing handled
NoInv ==
    [calls |-> 0, layer |-> 0, module |-> NoModule, onDisk |-> NoModule,
     sync |-> "-", returned |-> "-", threw |-> NoError,
     callback |-> "closed", cbOutcome |-> NoOutcome,
     promise |-> "none", promiseOutcome |-> NoOutcome,
     winner |-> "-", first |-> NoWire, faults |-> {}, event |-> NoEvent]

\* the synchronous behaviours of a handler: it throws, or it calls the
\* completion callback before it returns, or it only returns; and it returns
\* undefined, a bare string, or a promise
SyncString == "ok"

HandlerStyles ==
    [sync : {"throw", "callback", "none"}, ret : {"undefined", "string", "promise"}]

\* the failed resolution swallowed and the request passed on with next()
resolveFailurePassedOn(res, env, who) ==
    FinalHandler(res, 404, [kind |-> "cannot", arg |-> FunctionRoute], who)

\* require.resolve(module) throws for a name with no module: the throw
\* leaves the closure of handleLambda and express passes it to next(err)
resolveFailure(res, env, who) ==
    NextError(res, 500, "Error: Cannot find module", env, who)

\* The closure of handleLambda for a request that reached the function route
\* at layer `who`: the module is resolved (a throw of require.resolve leaves
\* the closure and reaches next(err)), dropped from the cache and loaded
\* again (a throw of the load is answered with 500), and the handler is
\* called.  A throw of the handler leaves the closure as well; a returned
\* promise is chained, any other returned value is dropped.
handleLambda(res, who, cache, source, style, outcome, error, env, request) ==
    LET reached == [NoInv EXCEPT !.layer = who, !.onDisk = source] IN
    IF source = "missing"
    THEN [res |-> resolveFailure(res, env, who), cache |-> cache, inv |-> reached]
    ELSE LET loaded == LoadHandler(cache, source) IN
        IF loaded.threw # ""
        THEN [res |-> SendBody([res EXCEPT !.statusCode = 500],
                               [kind |-> "invocationFailed", arg |-> loaded.threw], who),
              cache |-> loaded.cache, inv |-> reached]
        ELSE LET inv0 == [reached EXCEPT !.calls = 1, !.module = loaded.module,
                                         !.sync = style.sync,
                                         !.event = lambdaRequest(request)]
                 pending == IF style.ret = "promise" THEN "pending" ELSE "none"
             IN  IF style.sync = "throw"
                 THEN [res |-> NextError(res, 500, error, env, who),
                       cache |-> loaded.cache,
                       inv |-> [inv0 EXCEPT !.threw = error]]
                 ELSE IF style.sync = "callback"
                 THEN LET called == lambdaCallback(res, outcome, who).res
                      IN  [res |-> called, cache |-> loaded.cache,
                           inv |-> [inv0 EXCEPT !.returned = style.ret,
                                                !.callback = "called",
                                                !.cbOutcome = outcome,
                                                !.promise = pending,
                                                !.winner = "callback",
                                                !.first = called.wire]]
                 ELSE [res |-> res, cache |-> loaded.cache,
                       inv |-> [inv0 EXCEPT !.returned = style.ret,
                                            !.callback = "open",
                                            !.promise = pending]]

\* ------------------------------------------------------ the deployments
\* What a run starts from: the CLI options, the parsed netlify.toml, the
\* environment, the published files, the behaviour of the deployed handler,
\* how many requests the clients send and whether the developer edits the
\* function's source while the server runs.
XA(v) == [NoHeaders EXCEPT !["X-A"] = v]

HeaderRules ==
    {[for |-> "/a", values |-> XA("h1")],
     [for |-> "/*", values |-> [XA("h2") EXCEPT !["Location"] = "/h"]]}

RedirectShapes ==
    {[status |-> 301, to |-> "/b", headers |-> NoHeaders],
     [status |-> 303, to |-> "/a", headers |-> XA("rd")],
     [status |-> 404, to |-> "/a", headers |-> XA("rw")]}
\* rewrites whose target is no file: a path that does not exist, a directory
RewriteToMissing == [status |-> 200, to |-> "/b", headers |-> NoHeaders]
RewriteToDirectory == [status |-> 200, to |-> "/d", headers |-> XA("rp")]

Redirect(from, shape, force) ==
    [from |-> from, to |-> shape.to, status |-> shape.status, force |-> force,
     headers |-> shape.headers]

RedirectRules ==
    {Redirect(from, shape, force) :
        from \in {"/a", "/*"}, shape \in RedirectShapes, force \in {"true", "false"}}
    \cup {Redirect("/a", RewriteToMissing, force) : force \in {"true", "false"}}
    \cup {Redirect(from, RewriteToDirectory, "true") : from \in {"/a", "/*"}}
    \cup {[from |-> "/*", to |-> "/b", status |-> 302, force |-> Absent,
           headers |-> NoHeaders]}

SeqsUpTo(S, n) == UNION {[1..k -> S] : k \in 0..n}

Deployment(static, lambda, webpack, publish, functions, headers, redirects, env, handler, load, liveEdit, payloads) ==
    [program |-> [static |-> static, lambda |-> lambda, webpack |-> webpack],
     netlifyConfig |->
        [build |-> [base |-> "/", publish |-> publish, functions |-> functions],
         headers |-> headers, redirects |-> redirects],
     env |-> env, files |-> {"/a"}, dirs |-> {"/d"}, handler |-> handler, load |-> load,
     liveEdit |-> liveEdit, payloads |-> payloads]

CallbackStyle == [sync |-> "callback", ret |-> "undefined"]

\* rule lists of every shape, one request, a handler that calls back at once
RoutingDeployments ==
    {Deployment(Absent, Absent, FALSE, "dist", "lambda", headers, redirects,
                "development", CallbackStyle, 1, FALSE, {NoPayload}) :
        headers \in SeqsUpTo(HeaderRules, MaxHeaders),
        redirects \in SeqsUpTo(RedirectRules, MaxRedirects)}

\* every handler behaviour under concurrent requests
LambdaDeployments ==
    {Deployment(Absent, Absent, FALSE, "dist", "lambda", <<>>, <<>>,
                env, style, MaxReq, FALSE, {NoPayload}) :
        env \in {"development", "production"}, style \in HandlerStyles}

\* the developer edits the function's source between and during requests
LiveEditDeployments ==
    {Deployment(Absent, Absent, FALSE, "dist", "lambda", <<>>, <<>>,
                "development", CallbackStyle, MaxReq, TRUE, {NoPayload})}

\* clients that send bodies of several content types to the function
UploadDeployments ==
    {Deployment(Absent, Absent, FALSE, "dist", "lambda", <<>>, <<>>,
                "development", CallbackStyle, MaxReq, FALSE, Payloads)}

\* every combination of the CLI's options and of the build directories
CliDeployments ==
    {Deployment(static, lambda, webpack, publish, functions, <<>>, <<>>,
                "development", CallbackStyle, 1, FALSE, {NoPayload}) :
        static \in {Absent, "true", "false"}, lambda \in {Absent, "true", "false"},
        webpack \in BOOLEAN, publish \in {"dist", Absent},
        functions \in {"lambda", Absent}}

Deployments ==
    RoutingDeployments \cup LambdaDeployments \cup LiveEditDeployments
        \cup CliDeployments \cup UploadDeployments

\* --------------------------------------------------------------- state
VARIABLES
    input,      \* the deployment (never changes)
    proc,       \* the CLI process: the serve action's position, the listener
    stack,      \* the express router stack of the Server instance
    disk,       \* the function's source under paths.lambda
    cache,      \* require.cache's entry for the function's module
    reqs        \* the requests: their routing, response and invocation

vars == <<input, proc, stack, disk, cache, reqs>>

Requests == 1..MaxReq

NoRequest ==
    [state |-> "none", path |-> "", method |-> "", referrer |-> "/",
     payload |-> NoPayload, res |-> NewResponse, inv |-> NoInv]

Init ==
    /\ input \in Deployments
    /\ proc = [pc |-> "start", server |-> FALSE, socket |-> "closed",
               listenResolved |-> FALSE, watching |-> FALSE, exitCode |-> -1,
               log |-> {}]
    /\ stack = <<>>
    /\ disk = "v1"
    /\ cache = NoModule
    /\ reqs = [r \in Requests |-> NoRequest]

\* ------------------------------------------------- the serve action (CLI)
\* routes: a stage is on unless its option is the string "false"
Routes(program) ==
    [static |-> program.static # "false", lambda |-> program.lambda # "false"]

\* process.exit(code), and the end of the process by an uncaught exception
\* (node's exit code for it is 1), after `lines` were logged
Exit(p, code, lines) ==
    [p EXCEPT !.pc = "exited", !.exitCode = code, !.log = @ \cup lines]

\* new Server(options): the constructor runs initialize; a throw reaches the
\* serve action's catch, which logs the error and exits with code 1
Construct ==
    /\ proc.pc = "start"
    /\ LET options == [netlifyConfig |-> input.netlifyConfig,
                       routes |-> Routes(input.program)]
           built == initialize(options)
       IN  IF built.threw = ""
           THEN /\ stack' = built.stack
                /\ proc' = [proc EXCEPT !.pc = "constructed", !.server = TRUE,
                                        !.log = @ \cup built.log]
           ELSE /\ stack' = <<>>
                /\ proc' = Exit(proc, 1, built.log \cup {built.threw})
    /\ UNCHANGED <<input, disk, cache, reqs>>

\* listen() resolving its promise at once, outside the listen callback
listenResolvedAtOnce(p) ==
    [p EXCEPT !.pc = "awaiting", !.socket = "binding", !.listenResolved = TRUE]

\* server.listen(): express.listen is called and the promise is returned
\* unresolved; the serve action awaits it
listen(p) == [p EXCEPT !.pc = "awaiting", !.socket = "binding"]

Listen ==
    /\ proc.pc = "constructed"
    /\ proc' = listen(proc)
    /\ UNCHANGED <<input, stack, disk, cache, reqs>>

\* the listen callback without an error: the port is bound, "server up" is
\* logged and the promise resolved
BindSucceeds ==
    /\ proc.pc # "exited"
    /\ proc.socket = "binding"
    /\ proc' = [proc EXCEPT !.socket = "listening", !.listenResolved = TRUE,
                            !.log = @ \cup {"netlify-local: server up"}]
    /\ UNCHANGED <<input, stack, disk, cache, reqs>>

\* the bind fails.  The failure reaches the process either as the listen
\* callback's error argument (the branch the callback has for it: two log
\* lines and process.exit(1)) or as the http server's 'error' event, which
\* nothing listens to: node prints the error and exits with code 1.
BindFails ==
    /\ proc.pc # "exited"
    /\ proc.socket = "binding"
    /\ \E delivery \in {"callback", "event"} :
          proc' = Exit([proc EXCEPT !.socket = "failed"], 1,
                       IF delivery = "callback"
                       THEN {"netlify-local: unable to start server",
                             "Error: listen EADDRINUSE"}
                       ELSE {"Error: listen EADDRINUSE"})
    /\ UNCHANGED <<input, stack, disk, cache, reqs>>

\* the serve action after `await server.listen()`: the asset watcher is
\* started when a webpack config was given
Resume ==
    /\ proc.pc = "awaiting"
    /\ proc.listenResolved
    /\ proc' = [proc EXCEPT !.pc = "running", !.watching = input.program.webpack]
    /\ UNCHANGED <<input, stack, disk, cache, reqs>>

\* ----------------------------------------------------------- requests
Serving == proc.pc = "running" /\ proc.socket = "listening"

\* an invocation whose handler returned and has not completed
Suspended(q) ==
    /\ q.inv.calls > 0
    /\ q.inv.sync = "none"
    /\ q.inv.callback # "called"
    /\ q.inv.promise # "settled"

\* a server that takes the next request only when no invocation is suspended
RequestAfterCompletion(r) ==
    /\ Serving
    /\ r <= input.load
    /\ reqs[r].state = "none"
    /\ IF r = 1 THEN TRUE ELSE reqs[r - 1].state # "none"
    /\ \A o \in Requests : ~Suspended(reqs[o])
    /\ \E path \in Paths, method \in Methods :
          LET request == [NoRequest EXCEPT !.state = "routed", !.path = path,
                                          !.method = method]
              d == Dispatch(stack, 1, request, NewResponse, input)
          IN  IF d.lambda = 0
              THEN /\ reqs' = [reqs EXCEPT ![r] = [request EXCEPT !.res = d.res]]
                   /\ cache' = cache
              ELSE \E outcome \in Outcomes, error \in Errors, payload \in input.payloads :
                     LET sent == [request EXCEPT !.payload = payload]
                         h == handleLambda(d.res, d.lambda, cache, disk, input.handler,
                                           outcome, error, input.env, sent)
                     IN  /\ reqs' = [reqs EXCEPT ![r] =
                                        [sent EXCEPT !.res = h.res, !.inv = h.inv]]
                         /\ cache' = h.cache
    /\ UNCHANGED <<input, proc, stack, disk>>

\* A request arrives and walks the router stack; when it reaches the
\* function route the handler is invoked: it behaves as the deployed
\* handler does, with any of the values a handler may hand over.
Request(r) ==
    /\ Serving
    /\ r <= input.load
    /\ reqs[r].state = "none"
    /\ IF r = 1 THEN TRUE ELSE reqs[r - 1].state # "none"
    /\ \E path \in Paths, method \in Methods :
          LET request == [NoRequest EXCEPT !.state = "routed", !.path = path,
                                          !.method = method]
              d == Dispatch(stack, 1, request, NewResponse, input)
          IN  IF d.lambda = 0
              THEN /\ reqs' = [reqs EXCEPT ![r] = [request EXCEPT !.res = d.res]]
                   /\ cache' = cache
              ELSE \E outcome \in Outcomes, error \in Errors, payload \in input.payloads :
                     LET sent == [request EXCEPT !.payload = payload]
                         h == handleLambda(d.res, d.lambda, cache, disk, input.handler,
                                           outcome, error, input.env, sent)
                     IN  /\ reqs' = [reqs EXCEPT ![r] =
                                        [sent EXCEPT !.res = h.res, !.inv = h.inv]]
                         /\ cache' = h.cache
    /\ UNCHANGED <<input, proc, stack, disk>>

\* what a completion trigger leaves on the request: the response, the fault
\* (an error thrown or emitted that nothing handles) and the first content
Completed(q, result, fault, trigger) ==
    LET wrote == ~q.res.finished /\ result.res.finished IN
    [q EXCEPT !.res = result.res,
              !.inv.faults = IF fault # "" THEN @ \cup {fault} ELSE @,
              !.inv.winner = IF wrote THEN trigger ELSE @,
              !.inv.first = IF wrote THEN result.res.wire ELSE @]

\* The handler calls the completion callback after it returned.  An error
\* the callback throws is an uncaught exception when the handler called it
\* from a timer or an I/O callback, and an unhandled rejection when it
\* called it inside a promise; an 'error' event emitted on the response is
\* an uncaught exception.
CallbackFires(r) ==
    /\ proc.pc = "running"
    /\ reqs[r].inv.callback = "open"
    /\ \E outcome \in Outcomes, context \in {"timer", "promise"} :
          LET q == reqs[r]
              result == lambdaCallback(q.res, outcome, q.inv.layer)
              fault == IF result.threw # "" THEN result.threw ELSE result.emitted
              crash == result.emitted # "" \/ (result.threw # "" /\ context = "timer")
          IN  /\ reqs' = [reqs EXCEPT ![r] =
                            [Completed(q, result, fault, "callback") EXCEPT
                                !.inv.callback = "called", !.inv.cbOutcome = outcome]]
              /\ proc' = IF crash THEN Exit(proc, 1, {fault}) ELSE proc
    /\ UNCHANGED <<input, stack, disk, cache>>

\* The promise the handler returned settles and the chain of handleLambda
\* runs.  A throw that leaves the chain is an unhandled rejection.
PromiseSettles(r) ==
    /\ proc.pc = "running"
    /\ reqs[r].inv.promise = "pending"
    /\ \E outcome \in Outcomes :
          LET q == reqs[r]
              result == promiseChain(q.res, outcome, q.inv.layer)
              fault == IF result.threw # "" THEN result.threw ELSE result.emitted
          IN  /\ reqs' = [reqs EXCEPT ![r] =
                            [Completed(q, result, fault, "promise") EXCEPT
                                !.inv.promise = "settled",
                                !.inv.promiseOutcome = outcome]]
              /\ proc' = IF result.emitted # "" THEN Exit(proc, 1, {fault}) ELSE proc
    /\ UNCHANGED <<input, stack, disk, cache>>

\* the developer replaces, breaks or removes the function's source
EditSource ==
    /\ input.liveEdit
    /\ proc.pc = "running"
    /\ \E source \in Sources \ {disk} : disk' = source
    /\ UNCHANGED <<input, proc, stack, cache, reqs>>

Next ==
    \/ Construct
    \/ Listen
    \/ BindSucceeds
    \/ BindFails
    \/ Resume
    \/ \E r \in Requests : Request(r)
    \/ \E r \in Requests : CallbackFires(r)
    \/ \E r \in Requests : PromiseSettles(r)
    \/ EditSource

Spec == Init /\ [][Next]_vars

\* ================================================================ claims
Routed == {r \in Requests : reqs[r].state = "routed"}
Answered == {r \in Routed : reqs[r].res.finished}

\* the layer that ended the routing of request r, when it is a rule's layer
AnsweringLayer(r) == stack[reqs[r].res.by]
AnsweredByRule(r) ==
    /\ reqs[r].res.by \in 1..Len(stack)
    /\ AnsweringLayer(r).kind \in {"redirect", "rewrite"}

ConfiguredRedirects == input.netlifyConfig.redirects
HardRuleMatches(r) ==
    \E i \in 1..Len(ConfiguredRedirects) :
        /\ ConfiguredRedirects[i].force = "true"
        /\ Matches(ConfiguredRedirects[i].from, reqs[r].path)

\* the static stage, when it is on, has a file to answer request r with
StaticAnswers(r) ==
    /\ Routes(input.program).static
    /\ reqs[r].method \in {"GET", "HEAD"}
    /\ reqs[r].path \in input.files
\* the function stage, when it is on, takes request r
FunctionAnswers(r) == Routes(input.program).lambda /\ reqs[r].path = FunctionRoute

\* C1: the stages are tried in the order hard redirects, static, function,
\* soft redirects.  A request that a force=true rule matches is answered by
\* a force=true rule matching it, also when a static file or the function
\* route matches it; a force=false rule answers a request only when neither
\* the static stage nor the function stage has an answer for it.
C1_StageOrder ==
    \A r \in Routed :
        /\ HardRuleMatches(r) =>
              /\ AnsweredByRule(r)
              /\ AnsweringLayer(r).force = "true"
              /\ Matches(AnsweringLayer(r).path, reqs[r].path)
        /\ (AnsweredByRule(r) /\ AnsweringLayer(r).force = "false") =>
              ~StaticAnswers(r) /\ ~FunctionAnswers(r)

\* the function invocations: the requests whose handler was called
Invoked == {r \in Routed : reqs[r].inv.calls > 0}
BothTriggersFired(r) ==
    reqs[r].inv.callback = "called" /\ reqs[r].inv.promise = "settled"

\* C2: of the two completion triggers of an invocation exactly one produces
\* the response: when both have fired, the content sent is that of the one
\* that fired first, and the later one caused no second write and no error.
C2_OneTriggerResponds ==
    \A r \in Invoked :
        BothTriggersFired(r) =>
            /\ reqs[r].res.wire = reqs[r].inv.first
            /\ reqs[r].inv.faults = {}

\* C3: a request answered by a redirect rule (status 301, 302 or 303) gets
\* exactly that rule's status code and a Location header equal to its `to`.
C3_RedirectStatus ==
    \A r \in Answered :
        (AnsweredByRule(r) /\ AnsweringLayer(r).status \in {301, 302, 303}) =>
            /\ reqs[r].res.wire.status = AnsweringLayer(r).status
            /\ reqs[r].res.wire.headers["Location"] = AnsweringLayer(r).to

\* the error a handler signalled as its only completion: thrown while it was
\* invoked, passed to the completion callback, or the rejection of its promise
SignalledError(r) ==
    LET inv == reqs[r].inv IN
    IF inv.sync = "throw" THEN inv.threw
    ELSE IF inv.winner = "callback" /\ inv.promise # "settled" THEN inv.cbOutcome.error
    ELSE IF inv.winner = "promise" /\ inv.callback # "called" THEN inv.promiseOutcome.error
    ELSE NoError

\* C4: a handler that throws synchronously, rejects its promise or calls
\* back with an error gets a 500 response whose body contains the error's
\* string representation, and the process goes on serving.
C4_HandlerErrorIs500 ==
    \A r \in Invoked :
        SignalledError(r) # NoError =>
            /\ reqs[r].res.finished
            /\ reqs[r].res.wire.status = 500
            /\ reqs[r].res.wire.body.arg = SignalledError(r)
            /\ Serving

\* the requests that reached handleLambda while no module was on disk
ModuleMissing == {r \in Routed : reqs[r].inv.layer # 0 /\ reqs[r].inv.onDisk = "missing"}

\* C5: a request to the function route for which no module exists is
\* answered with status 500, and the listener stays up for later requests.
C5_MissingModuleIs500 ==
    \A r \in ModuleMissing :
        /\ reqs[r].res.finished
        /\ reqs[r].res.wire.status = 500
        /\ Serving

\* a request was answered after an earlier one found no module
C5_Witness ==
    \E r \in ModuleMissing : \E later \in Answered : later > r

\* the header rules of the configuration that match request r
ConfiguredHeaders == input.netlifyConfig.headers
MatchingHeaderRules(r) ==
    {k \in 1..Len(ConfiguredHeaders) : Matches(ConfiguredHeaders[k].for, reqs[r].path)}

\* C6 as stated: the final response carries every name/value pair of every
\* header rule that matches the request's path, whichever stage answers.
C6_EveryDeclaredPair ==
    \A r \in Answered : \A k \in MatchingHeaderRules(r) :
        \A n \in Keys(ConfiguredHeaders[k].values) :
            reqs[r].res.wire.headers[n] = ConfiguredHeaders[k].values[n]

\* C6 as amended: the final response carries every header name a matching
\* header rule declares, with the rule's value unless a later layer the
\* request went through (a later header rule, a rewrite that passed the
\* request on, the answering stage) wrote the same name after it.
C6_DeclaredHeadersLastWriteWins ==
    \A r \in Answered : \A k \in MatchingHeaderRules(r) :
        \E i \in 1..Len(stack) :
            /\ stack[i] = handleHeader(ConfiguredHeaders[k].for, ConfiguredHeaders[k].values)
            /\ \A n \in Keys(ConfiguredHeaders[k].values) :
                  LET w == reqs[r].res.writer[n] IN
                  /\ reqs[r].res.wire.headers[n] # NoValue
                  /\ w >= i
                  /\ w = i => reqs[r].res.wire.headers[n] = ConfiguredHeaders[k].values[n]
                  /\ w > i => w <= reqs[r].res.by

\* a redirect answered a request that a header rule matched, and the
\* response carries the rule's pair
C6_Witness ==
    \E r \in Answered : \E k \in MatchingHeaderRules(r) :
        /\ AnsweredByRule(r)
        /\ reqs[r].res.wire.headers["X-A"] = ConfiguredHeaders[k].values["X-A"]
        /\ reqs[r].res.writer["X-A"] < reqs[r].res.by

TextBody(s) == [kind |-> "text", arg |-> s]

C8_FreshModule ==
    \A r \in Invoked : reqs[r].inv.module = reqs[r].inv.onDisk

\* two invocations, the source replaced between them: the second ran the
\* new handler
C8_Witness ==
    \E r \in Invoked : \E later \in Invoked :
        /\ later > r
        /\ reqs[r].inv.module = "v1"
        /\ reqs[later].inv.module = "v2"

\* an enabled stage whose directory the configuration does not name
MissingDirectory ==
    \/ Routes(input.program).static /\ input.netlifyConfig.build.publish = Absent
    \/ Routes(input.program).lambda /\ input.netlifyConfig.build.functions = Absent

\* C9: with an enabled stage whose directory is absent the construction of
\* the Server fails: no instance, listen() is never reached, and the
\* process exits with code 1.
C9_MissingDirectoryIsFatal ==
    MissingDirectory =>
        \/ proc.pc = "start"
        \/ /\ proc.pc = "exited"
           /\ proc.exitCode = 1
           /\ ~proc.server
           /\ proc.socket = "closed"
           /\ ~proc.listenResolved

\* the process has exited on a configuration without build.functions
C9_Witness ==
    /\ MissingDirectory
    /\ input.netlifyConfig.build.publish # Absent
    /\ proc.pc = "exited"

\* C10: listen() resolves only after the bind succeeded; after a failed
\* bind the failure is logged, the process has exited with code 1, listen()
\* has not resolved and the asset watcher was not started.
C10_ListenResolvesAfterBind ==
    /\ proc.listenResolved => proc.socket = "listening"
    /\ proc.watching => proc.socket = "listening"
    /\ proc.socket = "failed" =>
          /\ proc.pc = "exited"
          /\ proc.exitCode = 1
          /\ "Error: listen EADDRINUSE" \in proc.log
          /\ ~proc.listenResolved
          /\ ~proc.watching

\* the bind failed with a webpack config given
C10_Witness == proc.socket = "failed" /\ input.program.webpack

\* the requests whose invocation is suspended, the handler not yet complete
Pending == {r \in Routed : Suspended(reqs[r])}

\* C11: a function invocation whose handler has not completed holds only
\* its own request open.  Nothing is written to the pending request; every
\* other request routed meanwhile that is not itself a suspended invocation
\* is answered; and while the server runs the next request is accepted.
C11_PendingHoldsOnlyItself ==
    \A r \in Pending :
        /\ ~reqs[r].res.finished
        /\ reqs[r].res.wire = NoWire
        /\ \A o \in Routed \ Pending : reqs[o].res.finished
        /\ \A n \in Requests :
              (Serving /\ n <= input.load /\ reqs[n].state = "none"
                 /\ (IF n = 1 THEN TRUE ELSE reqs[n - 1].state # "none"))
              => ENABLED Request(n)

\* a static file was served while an earlier invocation is still pending
C11_Witness ==
    \E r \in Pending : \E o \in Answered :
        /\ o > r
        /\ reqs[o].inv.layer = 0
        /\ reqs[o].res.wire.body = FileContents("/a")

\* the requests a rewrite rule (status other than 301, 302, 303) answered
Rewritten == {r \in Answered : AnsweredByRule(r) /\ AnsweringLayer(r).kind = "rewrite"}
CarriesRuleHeaders(r) ==
    \A n \in Keys(AnsweringLayer(r).headers) :
        reqs[r].res.wire.headers[n] = AnsweringLayer(r).headers[n]

\* C12 as stated: a request a rewrite rule answers gets the rule's status
\* code, the contents of the file at `to` as its body, and the rule's
\* headers.
C12_RewriteServesFile ==
    \A r \in Rewritten :
        /\ reqs[r].res.wire.status = AnsweringLayer(r).status
        /\ reqs[r].res.wire.body = FileContents(AnsweringLayer(r).to)
        /\ CarriesRuleHeaders(r)

\* C12 as amended: when the file at `to` exists under the static directory
\* the request gets the rule's status code, the file's contents and the
\* rule's headers; when it does not exist the request gets the 404 error
\* page, still with the rule's headers, and nothing of a file.
C12_RewriteServesExistingFile ==
    \A r \in Rewritten :
        /\ CarriesRuleHeaders(r)
        /\ IF FileExists(input, AnsweringLayer(r).to)
           THEN /\ reqs[r].res.wire.status = AnsweringLayer(r).status
                /\ reqs[r].res.wire.body = FileContents(AnsweringLayer(r).to)
           ELSE /\ reqs[r].res.wire.status = 404
                /\ reqs[r].res.wire.body.kind = "errorPage"

\* a rewrite with status 404 and its own header answered with the file
C12_Witness ==
    \E r \in Rewritten :
        /\ reqs[r].res.wire.status = 404
        /\ reqs[r].res.wire.body = FileContents("/a")
        /\ reqs[r].res.wire.headers["X-A"] = "rw"

\* C13: the handler observes isBase64Encoded = true and a base64-encoded
\* body exactly when the request has a body whose Content-Type is not
\* text-like; in every other case, a request without a body included, it
\* observes the body as it was parsed and isBase64Encoded = false.
C13_Base64OnlyForBinaryBody ==
    \A r \in Invoked :
        LET sent == reqs[r].payload
            event == reqs[r].inv.event
        IN  IF sent.hasBody /\ ~TextLike(sent.contentType)
            THEN /\ event.isBase64Encoded
                 /\ event.body = StringBody(Base64(sent.text))
            ELSE /\ ~event.isBase64Encoded
                 /\ event.body = bodyParser(sent)

\* a stage as the CLI options and the configuration describe it, and what
\* the construction made of it
StageFlag(stage) ==
    IF stage = "static" THEN input.program.static # "false"
    ELSE input.program.lambda # "false"
StageDirectory(stage) ==
    IF stage = "static" THEN input.netlifyConfig.build.publish
    ELSE input.netlifyConfig.build.functions
StageError(stage) ==
    IF stage = "static" THEN "cannot find build.publish property within toml config"
    ELSE "cannot find build.functions property within toml config"
StageRegistered(stage) == \E i \in 1..Len(stack) : stack[i].kind = stage
OtherStage(stage) == IF stage = "static" THEN "lambda" ELSE "static"

\* C14: with the flag of a stage false (the option is the string "false")
\* the stage is not registered and its missing directory is no error, and
\* the other stage is registered, refused or left out as its own flag and
\* its own directory dictate.
C14_StagesIndependent ==
    proc.pc # "start" =>
        \A stage \in {"static", "lambda"} :
            LET other == OtherStage(stage) IN
            ~StageFlag(stage) =>
                /\ ~StageRegistered(stage)
                /\ StageError(stage) \notin proc.log
                /\ IF ~StageFlag(other)
                   THEN proc.server /\ ~StageRegistered(other)
                   ELSE IF StageDirectory(other) = Absent
                   THEN /\ ~proc.server /\ proc.pc = "exited"
                        /\ StageError(other) \in proc.log
                   ELSE proc.server /\ StageRegistered(other)

\* static is off without build.publish, and the function stage is registered
C14_Witness ==
    /\ input.program.static = "false"
    /\ input.netlifyConfig.build.publish = Absent
    /\ proc.server
    /\ StageRegistered("lambda")
    /\ ~StageRegistered("static")

\* the layers of the redirect pass with the given force, as the stack has
\* them, and the layer registered for a rule
IsRuleLayer(layer) == layer.kind \in {"redirect", "rewrite"}
PassLayers(force) ==
    SelectSeq(stack, LAMBDA layer : IsRuleLayer(layer) /\ layer.force = force)
PassRules(force) ==
    SelectSeq(ConfiguredRedirects, LAMBDA rule : rule.force = force)
RuleLayer(rule) ==
    IF rule.status \in {301, 302, 303} THEN handleRedirect(rule) ELSE handleRewrite(rule)

\* C15: within each pass the rules are registered in declaration order and
\* the first rule whose `from` matches a request answers it; a later rule of
\* the same pass that matches the request never produces the response.
C15_FirstMatchWins ==
    /\ proc.server =>
          \A force \in {"true", "false"} :
              PassLayers(force) =
                  [k \in 1..Len(PassRules(force)) |-> RuleLayer(PassRules(force)[k])]
    /\ \A r \in Answered :
          AnsweredByRule(r) =>
              \A j \in 1..(reqs[r].res.by - 1) :
                  (IsRuleLayer(stack[j]) /\ stack[j].force = AnsweringLayer(r).force)
                      => ~Matches(stack[j].path, reqs[r].path)

\* the router stack as it would be without the header rules, and the walk
\* of a request through either stack
WithoutHeaderRules == SelectSeq(stack, LAMBDA layer : layer.kind # "header")
Walk(layers, r) ==
    Dispatch(layers, 1,
             [NoRequest EXCEPT !.state = "routed", !.path = reqs[r].path,
                               !.method = reqs[r].method],
             NewResponse, input)
\* the layer a walk stopped at: the layer that answered or the function
\* route, or nothing when the walk ran off the end of the stack
StoppedAt(layers, walk) ==
    LET i == IF walk.lambda # 0 THEN walk.lambda ELSE walk.res.by
    IN  IF i \in 1..Len(layers) THEN layers[i] ELSE Layer("none", "", NoHeaders, 0, "", "")
MatchedByHeaderRule(r) ==
    \E i \in 1..Len(stack) :
        stack[i].kind = "header" /\ Matches(stack[i].path, reqs[r].path)

\* C16: a header rule never ends the routing of a request.  No request is
\* answered by a header layer, and every request stops at the same layer,
\* with the same status and body, as it would without the header rules.
C16_HeaderRuleIsFrame ==
    \A r \in Routed :
        LET with == Walk(stack, r)
            without == Walk(WithoutHeaderRules, r)
        IN  /\ StoppedAt(stack, with).kind # "header"
            /\ StoppedAt(stack, with) = StoppedAt(WithoutHeaderRules, without)
            /\ with.res.finished = without.res.finished
            /\ with.res.wire.status = without.res.wire.status
            /\ with.res.wire.body = without.res.wire.body
            /\ reqs[r].inv.layer = with.lambda
            /\ reqs[r].inv.layer = 0 =>
                  /\ reqs[r].res.wire.status = without.res.wire.status
                  /\ reqs[r].res.wire.body = without.res.wire.body

\* a POST that a header rule matched went on to the stage that answered it
C16_Witness ==
    \E r \in Answered :
        /\ MatchedByHeaderRule(r)
        /\ reqs[r].method = "POST"
        /\ reqs[r].res.wire.headers["X-A"] # NoValue
        /\ reqs[r].res.by > Len(input.netlifyConfig.headers)

\* the requests that reached the function route
ReachedFunction == {r \in Routed : reqs[r].inv.layer # 0}

\* C17: the handler of a request to the function route is invoked at most
\* once and only with a module that loaded; when the load fails the handler
\* is not invoked, neither completion trigger is armed, and the response is
\* the one the failed load wrote.
C17_InvokedOnceAfterLoad ==
    \A r \in Routed :
        LET inv == reqs[r].inv IN
        /\ inv.calls <= 1
        /\ inv.calls > 0 => (r \in ReachedFunction /\ inv.module \in Versions)
        /\ (r \in ReachedFunction /\ inv.onDisk \notin Versions) =>
              /\ inv.calls = 0
              /\ inv.callback = "closed"
              /\ inv.promise = "none"
              /\ inv.winner = "-"
              /\ reqs[r].res.wire.status = 500
              /\ reqs[r].res.wire.body.kind \in {"invocationFailed", "errorPage"}

\* a source that throws while it loads was answered 500, handler not called
C17_Witness ==
    \E r \in ReachedFunction :
        /\ reqs[r].inv.onDisk = "broken"
        /\ reqs[r].inv.calls = 0
        /\ reqs[r].res.wire.body = [kind |-> "invocationFailed", arg |-> "Error: load"]

\* the headers the stage that answered request r declared itself: the own
\* headers of the redirect or rewrite rule, or the headers of the response
\* the function's handler completed with
AnsweringStageHeaders(r) ==
    LET inv == reqs[r].inv IN
    IF AnsweredByRule(r) THEN AnsweringLayer(r).headers
    ELSE IF inv.winner = "callback" THEN inv.cbOutcome.response.headers
    ELSE IF inv.winner = "promise" THEN inv.promiseOutcome.response.headers
    ELSE NoHeaders
HeaderRuleDeclares(r, n) ==
    \E k \in MatchingHeaderRules(r) : ConfiguredHeaders[k].values[n] # NoValue

\* C18: when a header rule matching the request and the stage that answers
\* it declare the same header name, the response carries the answering
\* stage's value.
C18_LaterStageValueWins ==
    \A r \in Answered : \A n \in Keys(AnsweringStageHeaders(r)) :
        HeaderRuleDeclares(r, n) =>
            reqs[r].res.wire.headers[n] = AnsweringStageHeaders(r)[n]

\* a function's response replaced the X-A value of a matching header rule
C18_Witness ==
    \E r \in Answered :
        /\ HeaderRuleDeclares(r, "X-A")
        /\ reqs[r].inv.winner = "callback"
        /\ reqs[r].inv.cbOutcome = Succeeds(ObjectResponse)
        /\ reqs[r].res.wire.headers["X-A"] = "fn"

\* how often a value occurs in a sequence, and where the stages are
Occurrences(seq, x) == Cardinality({i \in 1..Len(seq) : seq[i] = x})
StageLayers == {i \in 1..Len(stack) : stack[i].kind \in {"static", "lambda"}}
RuleLayers == {i \in 1..Len(stack) : IsRuleLayer(stack[i])}

\* C19: the two passes partition the configured redirects.  Every rule with
\* force = true is registered exactly once and ahead of the static and
\* function layers, every rule with force = false exactly once and behind
\* them; a rule with any other force is registered nowhere and answers no
\* request.
C19_PassesPartitionRedirects ==
    proc.server =>
        /\ \A k \in 1..Len(ConfiguredRedirects) :
              LET rule == ConfiguredRedirects[k] IN
              Occurrences(stack, RuleLayer(rule)) =
                  IF rule.force \in {"true", "false"}
                  THEN Occurrences(ConfiguredRedirects, rule)
                  ELSE 0
        /\ \A i \in RuleLayers :
              /\ stack[i].force \in {"true", "false"}
              /\ \E k \in 1..Len(ConfiguredRedirects) :
                    stack[i] = RuleLayer(ConfiguredRedirects[k])
              /\ stack[i].force = "true" =>
                    \A j \in StageLayers \cup {j \in RuleLayers : stack[j].force = "false"} :
                        i < j
              /\ stack[i].force = "false" => \A j \in StageLayers : j < i
        /\ \A r \in Answered :
              AnsweredByRule(r) => AnsweringLayer(r).force \in {"true", "false"}

\* a rule without force is configured beside a hard rule: the hard rule is
\* registered ahead of the static layer, and a request was answered by
\* something other than a rule
C19_Witness ==
    /\ proc.server
    /\ \E k \in 1..Len(ConfiguredRedirects) : ConfiguredRedirects[k].force = Absent
    /\ \E i \in RuleLayers : \E j \in StageLayers : stack[i].force = "true" /\ i < j
    /\ \E r \in Answered : ~AnsweredByRule(r)

====
